---- MODULE Spec2Model ----
(***************************************************************************)
(* Model of task_llm.py: the per-company extraction pipeline               *)
(*   fetch -> extract_text -> call_gemini_api -> fallback links -> CSV.    *)
(*                                                                         *)
(* A Python str is modelled as a sequence of tokens.  A token is either a  *)
(* single character that the code treats specially (space, newline, tab,   *)
(* double quote, single quote, "/", "-", "(", ")") or a word that contains *)
(* none of them.  Substring tests (`x in s`) are sequence containment.     *)
(***************************************************************************)
EXTENDS Integers, Sequences, FiniteSets, TLC

VARIABLES
    \* ---- process_urls / get_company_information ----
    urls,            \* the argument of process_urls
    idx,             \* position of the list comprehension (1-based)
    pc,              \* where the program is
    soup,            \* primary page (get_company_information local)
    js_links,        \* raw links of the primary page
    cleaned_text,    \* accumulated text
    extracted_info,  \* current model answer
    links,           \* links the for loop has not visited yet
    ret,             \* <<>> while running, <<s>> once the function returned s
    output_data,     \* records built so far
    csv_arg,         \* <<>> or <<data>>: what save_to_csv was called with
    csv_file,        \* <<>> or <<data>>: what reached the file
    writes,          \* number of to_csv attempts
    fetch_log,       \* fetches issued for the current company, in order
    call_log,        \* model calls issued for the current company, in order
    \* ---- clean_text applied to an arbitrary string ----
    ct_pc, ct_text, ct_once, ct_twice,
    \* ---- extract_relevant_links applied to arbitrary arguments ----
    rl_pc, rl_soup, rl_js, rl_base, rl_url, rl_out

mainVars == <<urls, idx, pc, soup, js_links, cleaned_text, extracted_info, links,
              ret, output_data, csv_arg, csv_file, writes, fetch_log, call_log>>
ctVars == <<ct_pc, ct_text, ct_once, ct_twice>>
rlVars == <<rl_pc, rl_soup, rl_js, rl_base, rl_url, rl_out>>
vars == <<mainVars, ctVars, rlVars>>

----------------------------------------------------------------------------
\* Bounds of the model.

\* longest input list of process_urls
MaxUrls == 2
\* longest string given to clean_text
MaxLen == 4
\* most anchors / raw links given to extract_relevant_links
MaxAnchors == 2
MaxRaw == 1

----------------------------------------------------------------------------
\* Strings.

\* str.isspace / the regex class \s
IsSpace(c) == c \in {" ", "\n", "\t", "\r"}

\* str.replace(old, new) for single characters
Replace(s, old, new) == [i \in DOMAIN s |-> IF s[i] = old THEN new ELSE s[i]]

\* The one element of a singleton set.  Stages of a pipeline are chained as
\* The({g(y) : y \in {f(x)}}), which computes f(x) once.
The(S) == CHOOSE x \in S : TRUE

\* re.sub(r'\s+', ' ', s): every maximal run of whitespace becomes one space
RECURSIVE ReSubSpaces(_)
ReSubSpaces(s) ==
    IF s = <<>> THEN <<>>
    ELSE IF IsSpace(Head(s))
         THEN IF Len(s) > 1 /\ IsSpace(s[2])
              THEN ReSubSpaces(Tail(s))
              ELSE <<" ">> \o ReSubSpaces(Tail(s))
         ELSE <<Head(s)>> \o ReSubSpaces(Tail(s))

RECURSIVE LStrip(_)
LStrip(s) == IF s # <<>> /\ IsSpace(Head(s)) THEN LStrip(Tail(s)) ELSE s

RECURSIVE RStrip(_)
RStrip(s) ==
    IF s # <<>> /\ IsSpace(s[Len(s)]) THEN RStrip(SubSeq(s, 1, Len(s) - 1)) ELSE s

\* str.strip()
Strip(s) == The({RStrip(l) : l \in {LStrip(s)}})

\* clean_text without the final strip
clean_text_nostrip(text) ==
    The({ReSubSpaces(r) : r \in {Replace(Replace(text, "\"", "'"), "\n", " ")}})

\* clean_text(text)
clean_text(text) ==
    The({Strip(c) : c \in {ReSubSpaces(r) :
                            r \in {Replace(Replace(text, "\"", "'"), "\n", " ")}}})

\* `sub in s`
In(sub, s) == \E i \in 0..(Len(s) - Len(sub)) : SubSeq(s, i + 1, i + Len(sub)) = sub

\* str.lower(), token by token
LowerTok(c) ==
    CASE c = "Business" -> "business"
      [] c = "Newsroom" -> "newsroom"
      [] c = "Information" -> "information"
      [] c = "Not" -> "not"
      [] c = "Available" -> "available"
      [] OTHER -> c
Lower(s) == [i \in DOMAIN s |-> LowerTok(s[i])]

\* ' '.join(pieces)
RECURSIVE JoinSp(_)
JoinSp(ss) ==
    IF ss = <<>> THEN <<>>
    ELSE IF Len(ss) = 1 THEN Head(ss)
    ELSE Head(ss) \o <<" ">> \o JoinSp(Tail(ss))

SeqsUpTo(S, n) == UNION {[1..k -> S] : k \in 0..n}
Range(s) == {s[i] : i \in DOMAIN s}
\* every list that enumerates the set once (list(a_set) has no defined order)
ListsOf(S) == {s \in [1..Cardinality(S) -> S] : Range(s) = S}

----------------------------------------------------------------------------
\* Program constants.

\* Two entries of URLS, and an input that COMPANY_KEYWORDS has no entry for.
APPLE == <<"https://www.apple.com">>
SAMSUNG == <<"https://www.samsung.com", "/", "in", "/">>
UNLISTED == <<"https://www.example.org">>
Companies == {APPLE, SAMSUNG, UNLISTED}

\* scheme://host prefixes; a URL that starts with one is absolute
Origins == {"https://www.apple.com", "https://www.samsung.com",
            "https://www.example.org", "https://cdn.example.net"}

\* COMPANY_KEYWORDS.get(url, []) returning the second argument for every url
\* (a mapping with a catch-all entry)
COMPANY_KEYWORDS_get_any(url, default) ==
    {<<"business">>, <<"newsroom">>, <<"compliance">>}

\* COMPANY_KEYWORDS.get(url, default)
COMPANY_KEYWORDS_get(url, default) ==
    CASE url = APPLE -> {<<"business">>, <<"newsroom">>, <<"compliance">>}
      [] url = SAMSUNG -> {<<"company", "-", "info">>, <<"business", "-", "area">>,
                           <<"brand", "-", "identity">>, <<"environment">>}
      [] OTHER -> default

\* the marker literal tested at lines 120 and 126
MARKER == <<"Information", " ", "Not", " ", "Available">>

\* the literal returned at line 115, replaced by the empty string
FAILED_EMPTY == <<>>

\* the literal returned at line 115
FAILED == <<"Failed", " ", "to", " ", "fetch", " ", "content.">>

None == [tag |-> "None"]

----------------------------------------------------------------------------
\* Documents.  A document is a list of elements [kind, href, text]:
\*   kind "a"      an anchor with an href attribute and a visible text
\*   kind "script" a script whose source holds the absolute URL href (or none)
\*   kind "text"   visible text

IsAbsolute(href) == href # <<>> /\ href[1] \in Origins

\* re.findall(r'https?://[^\s"\'<>]+', response.text): every absolute URL of the
\* body, in document order
RECURSIVE findall(_)
findall(elems) ==
    IF elems = <<>> THEN <<>>
    ELSE (IF IsAbsolute(Head(elems).href) THEN <<Head(elems).href>> ELSE <<>>)
         \o findall(Tail(elems))

\* fetch_content(url), given what the network did: [ok |-> FALSE] stands for a
\* requests.RequestException, [ok |-> TRUE, body |-> elems] for a 2xx response
fetch_content(response) ==
    IF ~response.ok
    THEN [soup |-> None, js_links |-> None]
    ELSE [soup |-> [tag |-> "soup", elems |-> response.body],
          js_links |-> findall(response.body)]

\* what extract_text leaves of the tree: scripts are decomposed and " (href)" is
\* inserted after every anchor
RECURSIVE extract_text_tree(_)
extract_text_tree(elems) ==
    IF elems = <<>> THEN <<>>
    ELSE LET e == Head(elems) IN
         (CASE e.kind = "script" -> <<>>
            [] e.kind = "a" ->
                 <<e, [kind |-> "text", href |-> <<>>,
                       text |-> <<" ", "(">> \o e.href \o <<")">>]>>
            [] OTHER -> <<e>>)
         \o extract_text_tree(Tail(elems))

\* soup.get_text(separator=' ', strip=True): the stripped, non-empty strings
RECURSIVE get_text_pieces(_)
get_text_pieces(elems) ==
    IF elems = <<>> THEN <<>>
    ELSE (IF Strip(Head(elems).text) = <<>> THEN <<>> ELSE <<Strip(Head(elems).text)>>)
         \o get_text_pieces(Tail(elems))

\* extract_text(soup): the returned string
extract_text(s) == JoinSp(get_text_pieces(extract_text_tree(s.elems)))

\* extract_text(soup): the tree afterwards
extract_text_soup(s) == [tag |-> "soup", elems |-> extract_text_tree(s.elems)]

\* call_gemini_api(cleaned_text), given what the API did: [raises |-> TRUE] for
\* any exception, [raises |-> FALSE, text |-> t] for an answer
call_gemini_api(text, api) == IF api.raises THEN <<>> ELSE api.text

\* the directory of a base URL's path
RECURSIVE UpToLastSlash(_)
UpToLastSlash(p) ==
    IF p = <<>> THEN <<"/">>
    ELSE IF p[Len(p)] = "/" THEN p
    ELSE UpToLastSlash(SubSeq(p, 1, Len(p) - 1))

\* urljoin(base, href)
urljoin(base, href) ==
    IF href = <<>> THEN base
    ELSE IF IsAbsolute(href) THEN href
    ELSE IF href[1] = "/" THEN <<base[1]>> \o href
    ELSE <<base[1]>> \o UpToLastSlash(Tail(base)) \o href

\* soup.find_all("a", href=True)
find_all_a(s) == {i \in DOMAIN s.elems : s.elems[i].kind = "a"}

\* extract_relevant_links with the hrefs left unresolved
extract_relevant_links_raw(s, raw, base_url, url) ==
    LET keywords == COMPANY_KEYWORDS_get(url, {})
    IN {s.elems[i].href : i \in {j \in find_all_a(s) :
            \E k \in keywords : In(k, Lower(s.elems[j].href))}}
       \cup {raw[i] : i \in {j \in DOMAIN raw : \E k \in keywords : In(k, Lower(raw[j]))}}

\* extract_relevant_links(soup, js_links, base_url, url): the set `links`
extract_relevant_links(s, raw, base_url, url) ==
    LET keywords == COMPANY_KEYWORDS_get(url, {})
    IN {urljoin(base_url, s.elems[i].href) : i \in {j \in find_all_a(s) :
            \E k \in keywords : In(k, Lower(s.elems[j].href))}}
       \cup {raw[i] : i \in {j \in DOMAIN raw : \E k \in keywords : In(k, Lower(raw[j]))}}

----------------------------------------------------------------------------
\* The environment: what a fetch can bring back and what the model can answer.

El(k, h, t) == [kind |-> k, href |-> h, text |-> t]

Body0 == <<El("text", <<>>, <<"Founded", " ", "in", " ", "1999">>)>>
Body1 == <<El("a", <<"/", "business">>, <<"Biz">>),
           El("script", <<"https://www.apple.com", "/", "business">>, <<"var", " ", "u">>),
           El("a", <<"/", "store">>, <<"Store">>)>>
Body2 == <<El("a", <<"/", "Business">>, <<"About", "\n">>),
           El("script", <<"https://cdn.example.net", "/", "newsroom">>, <<>>),
           El("a", <<"company", "-", "info">>, <<"Info">>)>>
Bodies == {Body0, Body1, Body2}
\* the length of the longest of them
MaxBodyLen == CHOOSE n \in {Len(b) : b \in Bodies} : \A b \in Bodies : Len(b) <= n

Responses == {[ok |-> FALSE]} \cup {[ok |-> TRUE, body |-> b] : b \in Bodies}

AnswerOk == <<"Founded", " ", "1999">>
AnswerNA == <<"HQ", ":", " ", "Information", " ", "Not", " ", "Available">>
AnswerNA2 == <<"\"", "Awards", "\"", ":", "\n", "Information", " ", "Not", " ",
               "Available", "\n">>
AnswerLower == <<"information", " ", "not", " ", "available">>
Answers == {AnswerOk, AnswerNA, AnswerNA2, AnswerLower}

ApiOutcomes == {[raises |-> TRUE]} \cup {[raises |-> FALSE, text |-> a] : a \in Answers}

WriteOutcomes == {"written", "raises"}

----------------------------------------------------------------------------
\* get_company_information, line by line.

\* `"Information Not Available" in extracted_info`, also taken when the answer
\* is empty
HasMarker_or_empty(info) == info = <<>> \/ In(MARKER, info)

\* `"Information Not Available" in extracted_info`, compared without case
HasMarker_nocase(info) == In(Lower(MARKER), Lower(info))

\* `"Information Not Available" in extracted_info` (line 120)
HasMarker(info) == In(MARKER, info)

\* line 126 without the break
Break_never(info) == FALSE

\* the condition of the break (line 126)
Break(info) == ~In(MARKER, info)

\* line 124 with = in place of +=
Accumulate_replace(text, page) == page

\* cleaned_text += "\n" + extract_text(additional_soup) (line 124)
Accumulate(text, page) == text \o <<"\n">> \o page

\* the lists list(links) can be (line 108), for the call at line 121
LinkLists(s, raw, url) == ListsOf(extract_relevant_links(s, raw, url, url))

Record(url, info) == ("Company URL" :> url) @@ ("Extracted Information" :> info)

\* the list comprehension of line 143 leaving out the companies that failed
Collected_skip(data, url, info) ==
    IF info = FAILED THEN data ELSE Append(data, Record(url, clean_text(info)))

\* one step of the list comprehension (lines 143-144)
Collected(data, url, info) == Append(data, Record(url, clean_text(info)))

\* save_to_csv letting the exception of to_csv through
save_to_csv_raise(w) == IF w = "raises" THEN "crashed" ELSE "done"

\* save_to_csv: where the program is afterwards (lines 134-138)
save_to_csv(w) == "done"

LocalsCleared ==
    /\ soup' = None
    /\ js_links' = None
    /\ cleaned_text' = <<>>
    /\ extracted_info' = <<>>
    /\ links' = <<>>

Init ==
    /\ urls \in SeqsUpTo(Companies, MaxUrls)
    /\ idx = 1
    /\ pc = "loop"
    /\ soup = None
    /\ js_links = None
    /\ cleaned_text = <<>>
    /\ extracted_info = <<>>
    /\ links = <<>>
    /\ ret = <<>>
    /\ output_data = <<>>
    /\ csv_arg = <<>>
    /\ csv_file = <<>>
    /\ writes = 0
    /\ fetch_log = <<>>
    /\ call_log = <<>>
    /\ ct_pc = "off" /\ ct_text = <<>> /\ ct_once = <<>> /\ ct_twice = <<>>
    /\ rl_pc = "off" /\ rl_soup = None /\ rl_js = <<>> /\ rl_base = <<>>
    /\ rl_url = <<>> /\ rl_out = <<>>

\* lines 113-117: the primary fetch, and the text of the page
FetchPrimary ==
    /\ pc = "loop"
    /\ idx <= Len(urls)
    /\ \E r \in Responses :
         LET got == fetch_content(r) IN
         /\ fetch_log' = <<[url |-> urls[idx], ok |-> r.ok,
                              text |-> IF r.ok THEN extract_text(got.soup) ELSE <<>>]>>
         /\ call_log' = <<>>
         /\ IF got.soup = None
            THEN /\ ret' = <<FAILED>>
                 /\ pc' = "return"
                 /\ UNCHANGED <<soup, js_links, cleaned_text>>
            ELSE /\ ret' = <<>>
                 /\ pc' = "extract"
                 /\ soup' = extract_text_soup(got.soup)
                 /\ js_links' = got.js_links
                 /\ cleaned_text' = extract_text(got.soup)
    /\ UNCHANGED <<urls, idx, extracted_info, links, output_data, csv_arg, csv_file,
                   writes, ctVars, rlVars>>

\* lines 118-121: the first model call and the decision
Extract ==
    /\ pc = "extract"
    /\ \E a \in ApiOutcomes :
         LET info == call_gemini_api(cleaned_text, a) IN
         /\ extracted_info' = info
         /\ call_log' = Append(call_log, [text |-> cleaned_text, answer |-> info,
                                           raised |-> a.raises])
         /\ IF HasMarker(info)
            THEN /\ links' \in LinkLists(soup, js_links, urls[idx])
                 /\ pc' = "expand"
                 /\ ret' = ret
            ELSE /\ links' = links
                 /\ pc' = "return"
                 /\ ret' = <<info>>
    /\ UNCHANGED <<urls, idx, soup, js_links, cleaned_text, output_data, csv_arg,
                   csv_file, writes, fetch_log, ctVars, rlVars>>

\* lines 121-124: the next link of the loop is fetched
ExpandFetch ==
    /\ pc = "expand"
    /\ links # <<>>
    /\ \E r \in Responses :
         LET got == fetch_content(r) IN
         /\ fetch_log' = Append(fetch_log, [url |-> Head(links), ok |-> r.ok,
                              text |-> IF r.ok THEN extract_text(got.soup) ELSE <<>>])
         /\ links' = Tail(links)
         /\ IF got.soup = None
            THEN /\ pc' = "expand"
                 /\ cleaned_text' = cleaned_text
            ELSE /\ pc' = "expand_call"
                 /\ cleaned_text' = Accumulate(cleaned_text, extract_text(got.soup))
    /\ UNCHANGED <<urls, idx, soup, js_links, extracted_info, ret, output_data,
                   csv_arg, csv_file, writes, call_log, ctVars, rlVars>>

\* lines 125-127: the model is asked again
ExpandCall ==
    /\ pc = "expand_call"
    /\ \E a \in ApiOutcomes :
         LET info == call_gemini_api(cleaned_text, a) IN
         /\ extracted_info' = info
         /\ call_log' = Append(call_log, [text |-> cleaned_text, answer |-> info,
                                           raised |-> a.raises])
         /\ IF Break(info)
            THEN pc' = "return" /\ ret' = <<info>>
            ELSE pc' = "expand" /\ ret' = ret
    /\ UNCHANGED <<urls, idx, soup, js_links, cleaned_text, links, output_data,
                   csv_arg, csv_file, writes, fetch_log, ctVars, rlVars>>

\* lines 121, 129: the loop has no link left
ExpandExhausted ==
    /\ pc = "expand"
    /\ links = <<>>
    /\ ret' = <<extracted_info>>
    /\ pc' = "return"
    /\ UNCHANGED <<urls, idx, soup, js_links, cleaned_text, extracted_info, links,
                   output_data, csv_arg, csv_file, writes, fetch_log, call_log,
                   ctVars, rlVars>>

\* lines 143-144: the record of the company that returned
Collect ==
    /\ pc = "return"
    /\ output_data' = Collected(output_data, urls[idx], ret[1])
    /\ idx' = idx + 1
    /\ pc' = "loop"
    /\ LocalsCleared
    /\ UNCHANGED <<urls, ret, csv_arg, csv_file, writes, fetch_log, call_log,
                   ctVars, rlVars>>

\* lines 145, 132-138: the one write
SaveToCsv ==
    /\ pc = "loop"
    /\ idx > Len(urls)
    /\ \E w \in WriteOutcomes :
         /\ csv_arg' = <<output_data>>
         /\ writes' = writes + 1
         /\ csv_file' = IF w = "written" THEN <<output_data>> ELSE csv_file
         /\ pc' = save_to_csv(w)
    /\ UNCHANGED <<urls, idx, soup, js_links, cleaned_text, extracted_info, links,
                   ret, output_data, fetch_log, call_log, ctVars, rlVars>>

Next ==
    \/ FetchPrimary
    \/ Extract
    \/ ExpandFetch
    \/ ExpandCall
    \/ ExpandExhausted
    \/ Collect
    \/ SaveToCsv

Spec == Init /\ [][Next]_vars

----------------------------------------------------------------------------
\* clean_text on every string of at most MaxLen characters.

Chars == {"a", "\"", "'", " ", "\n", "\t"}

MainIdle ==
    /\ urls = <<>> /\ idx = 1 /\ pc = "off"
    /\ soup = None /\ js_links = None /\ cleaned_text = <<>> /\ extracted_info = <<>>
    /\ links = <<>> /\ ret = <<>> /\ output_data = <<>> /\ csv_arg = <<>>
    /\ csv_file = <<>> /\ writes = 0 /\ fetch_log = <<>> /\ call_log = <<>>

InitClean ==
    /\ MainIdle
    /\ ct_pc = "start" /\ ct_text \in SeqsUpTo(Chars, MaxLen)
    /\ ct_once = <<>> /\ ct_twice = <<>>
    /\ rl_pc = "off" /\ rl_soup = None /\ rl_js = <<>> /\ rl_base = <<>>
    /\ rl_url = <<>> /\ rl_out = <<>>

CleanOnce ==
    /\ ct_pc = "start"
    /\ ct_once' = clean_text(ct_text)
    /\ ct_pc' = "once"
    /\ UNCHANGED <<mainVars, rlVars, ct_text, ct_twice>>

CleanTwice ==
    /\ ct_pc = "once"
    /\ ct_twice' = clean_text(ct_once)
    /\ ct_pc' = "twice"
    /\ UNCHANGED <<mainVars, rlVars, ct_text, ct_once>>

NextClean == CleanOnce \/ CleanTwice

SpecClean == InitClean /\ [][NextClean]_vars

----------------------------------------------------------------------------
\* extract_relevant_links on bounded documents, raw link lists and URLs.

LinkElems ==
    {El("a", <<"/", "business">>, <<"Biz">>),
     El("a", <<"business">>, <<"Biz">>),
     El("a", <<"/", "Business">>, <<"Biz">>),
     El("a", <<"/", "store">>, <<"Store">>),
     El("a", <<"https://www.apple.com", "/", "business">>, <<"Biz">>),
     El("a", <<"company", "-", "info">>, <<"Info">>),
     El("script", <<"https://cdn.example.net", "/", "newsroom">>, <<>>)}

RawLinks ==
    {<<"https://www.apple.com", "/", "business">>,
     <<"https://cdn.example.net", "/", "Newsroom">>,
     <<"https://www.samsung.com", "/", "in", "/", "company", "-", "info">>,
     <<"https://cdn.example.net", "/", "store">>}

InitLinks ==
    /\ MainIdle
    /\ ct_pc = "off" /\ ct_text = <<>> /\ ct_once = <<>> /\ ct_twice = <<>>
    /\ rl_pc = "start"
    /\ \E els \in SeqsUpTo(LinkElems, MaxAnchors) : rl_soup = [tag |-> "soup", elems |-> els]
    /\ rl_js \in SeqsUpTo(RawLinks, MaxRaw)
    /\ rl_base \in Companies
    /\ rl_url \in Companies
    /\ rl_out = <<>>

RelevantLinks ==
    /\ rl_pc = "start"
    /\ rl_out' \in ListsOf(extract_relevant_links(rl_soup, rl_js, rl_base, rl_url))
    /\ rl_pc' = "done"
    /\ UNCHANGED <<mainVars, ctVars, rl_soup, rl_js, rl_base, rl_url>>

NextLinks == RelevantLinks

SpecLinks == InitLinks /\ [][NextLinks]_vars

----------------------------------------------------------------------------
\* Vocabulary of the properties.

\* the answer contains the case-sensitive literal "Information Not Available"
Marked(t) ==
    \E i \in 1..Len(t) - 4 :
        /\ t[i] = "Information" /\ t[i + 1] = " " /\ t[i + 2] = "Not"
        /\ t[i + 3] = " " /\ t[i + 4] = "Available"

Placeholder == <<"Failed", " ", "to", " ", "fetch", " ", "content.">>

\* the company the logs are about
Current == IF pc \in {"loop", "done", "crashed"} THEN idx - 1 ELSE idx

OkFetches == SelectSeq(fetch_log, LAMBDA f : f.ok)
LastCall == call_log[Len(call_log)]
Info(r) == r["Extracted Information"]

\* some anchor or raw link of the primary page matches a keyword of the company
SomeRelevant ==
    LET kws == COMPANY_KEYWORDS_get(urls[idx], {}) IN
    \/ \E i \in DOMAIN soup.elems :
         /\ soup.elems[i].kind = "a"
         /\ \E k \in kws : In(k, Lower(soup.elems[i].href))
    \/ \E i \in DOMAIN js_links : \E k \in kws : In(k, Lower(js_links[i]))

----------------------------------------------------------------------------
\* C1: the list handed to save_to_csv (and the list being built) has one record
\* per input URL processed so far, the i-th record carrying the i-th input URL;
\* at the call of save_to_csv it is as long as the input.
C1_OneRecordPerUrl ==
    /\ Len(output_data) = idx - 1
    /\ \A i \in DOMAIN output_data : output_data[i]["Company URL"] = urls[i]
    /\ csv_arg # <<>> =>
         /\ Len(csv_arg[1]) = Len(urls)
         /\ \A i \in DOMAIN urls : csv_arg[1][i]["Company URL"] = urls[i]

\* two companies, every fetch failed, and both are in the list that was saved
C1_Witness ==
    /\ csv_arg # <<>>
    /\ Len(urls) >= 2
    /\ \A i \in DOMAIN csv_arg[1] : Info(csv_arg[1][i]) = Placeholder

\* C2: when the primary fetch fails the function returns "Failed to fetch
\* content." at once: no model call, no other fetch, and the record of the
\* company holds that text.
C2_PrimaryFetchFails ==
    (fetch_log # <<>> /\ ~fetch_log[1].ok) =>
        /\ ret = <<Placeholder>>
        /\ call_log = <<>>
        /\ Len(fetch_log) = 1
        /\ pc \in {"return", "loop", "done"}
        /\ pc \in {"loop", "done"} => Info(output_data[idx - 1]) = Placeholder

C2_Witness ==
    /\ pc = "loop"
    /\ fetch_log # <<>> /\ ~fetch_log[1].ok
    /\ Len(output_data) = 2

\* C3: when the primary fetch succeeds and the first answer has no marker,
\* there is exactly one model call and exactly one fetch, of the company URL,
\* and the first answer is the result.
C3_NoMarkerNoFallback ==
    (call_log # <<>> /\ ~Marked(call_log[1].answer)) =>
        /\ Len(call_log) = 1
        /\ Len(fetch_log) = 1
        /\ fetch_log[1].url = urls[Current] /\ fetch_log[1].ok
        /\ ret = <<call_log[1].answer>>

\* the answer spells the marker in lower case and the page has relevant links
C3_Witness ==
    /\ pc = "return"
    /\ call_log # <<>> /\ call_log[1].answer = Lower(MARKER)
    /\ SomeRelevant

\* C4: when the first answer has the marker and no link is relevant (nothing
\* matches, or the company has no keywords), the result is that first answer
\* and nothing is fetched or asked beyond the first fetch and the first call.
C4_EmptyLinkSet ==
    (/\ pc = "return"
     /\ call_log # <<>> /\ Marked(call_log[1].answer)
     /\ (urls[idx] \notin {APPLE, SAMSUNG} \/ ~SomeRelevant)) =>
        /\ ret = <<call_log[1].answer>>
        /\ Len(fetch_log) = 1
        /\ Len(call_log) = 1

\* a company without keywords whose page links to /business
C4_Witness ==
    /\ pc = "return"
    /\ call_log # <<>> /\ Marked(call_log[1].answer)
    /\ urls[idx] = UNLISTED
    /\ \E i \in DOMAIN soup.elems : soup.elems[i].href = <<"/", "business">>

\* C5: clean_text(clean_text(t)) = clean_text(t), and clean_text(t) has no
\* newline, no double quote, no two whitespace characters in a row and no
\* whitespace at either end.
C5_CleanTextIdempotent ==
    /\ ct_pc \in {"once", "twice"} =>
         /\ \A i \in DOMAIN ct_once : ct_once[i] \notin {"\n", "\""}
         /\ \A i \in 1..Len(ct_once) - 1 : ~(IsSpace(ct_once[i]) /\ IsSpace(ct_once[i + 1]))
         /\ ct_once # <<>> => ~IsSpace(ct_once[1]) /\ ~IsSpace(ct_once[Len(ct_once)])
    /\ ct_pc = "twice" => ct_twice = ct_once

\* a string with a quote, a newline and whitespace at an end, cleaned twice
C5_Witness ==
    /\ ct_pc = "twice"
    /\ "\"" \in Range(ct_text) /\ "\n" \in Range(ct_text) /\ "a" \in Range(ct_text)
    /\ IsSpace(ct_text[1])
    /\ ct_once # ct_text

\* an upper bound on the steps the program still has to take: per company not
\* yet collected one fetch, one call, two steps per unvisited link, one return
\* and one collect; then the write
StepsOfCompany ==
    CASE pc = "loop" -> 0
      [] pc = "extract" -> 3 + 2 * Cardinality(find_all_a(soup)) + 2 * Len(js_links)
      [] pc = "expand" -> 2 + 2 * Len(links)
      [] pc = "expand_call" -> 3 + 2 * Len(links)
      [] pc = "return" -> 1
      [] OTHER -> 0
StepsOfRest ==
    IF pc \in {"done", "crashed"} THEN 0
    ELSE 1 + (IF pc = "loop" THEN Len(urls) + 1 - idx ELSE Len(urls) - idx)
             * (5 + 2 * (MaxBodyLen + MaxBodyLen))
Steps == StepsOfCompany + StepsOfRest

\* C6: whatever fails, the batch ends normally: until it has ended the program
\* always has a next step and every step brings the end nearer; every URL is
\* processed, the write is attempted exactly once, after the last company, and
\* a failed write ends the run the same way.
C6_BatchCompletes ==
    /\ [](pc = "done" \/ ENABLED Next)
    /\ [][Steps' < Steps]_vars
    /\ [](pc # "crashed")
    /\ [](writes = (IF pc = "done" THEN 1 ELSE 0))
    /\ [](pc = "done" => idx = Len(urls) + 1 /\ Len(output_data) = Len(urls))

\* the run ended although the last fetch and the write both failed
C6_Witness ==
    /\ pc = "done"
    /\ Len(urls) >= 2
    /\ csv_arg # <<>> /\ csv_file = <<>>
    /\ ~fetch_log[1].ok

\* C7: the fallback loop stops at the first answer without the marker, which
\* is the result; when the links run out first, the result is the last answer
\* and it has the marker; no candidate link is fetched twice.
C7_FallbackLoop ==
    /\ \A k \in DOMAIN call_log :
         ~Marked(call_log[k].answer) =>
            /\ k = Len(call_log)
            /\ ret = <<call_log[k].answer>>
            /\ Len(OkFetches) = k
            /\ fetch_log[Len(fetch_log)].ok
    /\ (/\ ret # <<>> /\ call_log # <<>>
        /\ \A k \in DOMAIN call_log : Marked(call_log[k].answer)) =>
            /\ ret = <<LastCall.answer>>
            /\ Marked(ret[1])
            /\ pc = "return" =>
                 {fetch_log[i].url : i \in 2..Len(fetch_log)}
                     = extract_relevant_links(soup, js_links, urls[idx], urls[idx])
    /\ \A i, j \in 2..Len(fetch_log) : i # j => fetch_log[i].url # fetch_log[j].url

\* the second answer clears the marker while a link is still unvisited
C7_Witness ==
    /\ pc = "return"
    /\ Len(call_log) = 2 /\ ~Marked(call_log[2].answer)
    /\ links # <<>>

\* C8: each model call after the first gets the previous call's text, a
\* newline, and the text of one newly fetched page; a failed fallback fetch
\* changes neither the text nor the answer, makes no call, and the loop goes
\* on, so there is one call per successful fetch.
C8_AppendOnly ==
    /\ call_log # <<>> => call_log[1].text = OkFetches[1].text
    /\ \A k \in 2..Len(call_log) :
         call_log[k].text = call_log[k - 1].text \o <<"\n">> \o OkFetches[k].text
    /\ pc = "expand" =>
         /\ cleaned_text = LastCall.text
         /\ extracted_info = LastCall.answer
         /\ ret = <<>>
    /\ Len(call_log) = (IF pc \in {"extract", "expand_call"}
                        THEN Len(OkFetches) - 1 ELSE Len(OkFetches))

\* a failed fallback fetch followed by a successful one and its model call
C8_Witness ==
    /\ pc = "return"
    /\ Len(fetch_log) = 3 /\ ~fetch_log[2].ok /\ fetch_log[3].ok
    /\ Len(call_log) = 2

\* C9: extract_relevant_links returns, without repetition, exactly the
\* resolved anchors whose lower-cased href has a keyword of the lookup URL and
\* the raw links whose lower-cased text has one; nothing for an unknown URL.
C9_RelevantLinks ==
    rl_pc = "done" =>
        LET kws == CASE rl_url = APPLE ->
                          {<<"business">>, <<"newsroom">>, <<"compliance">>}
                     [] rl_url = SAMSUNG ->
                          {<<"company", "-", "info">>, <<"business", "-", "area">>,
                           <<"brand", "-", "identity">>, <<"environment">>}
                     [] OTHER -> {}
            HitA(i) == /\ rl_soup.elems[i].kind = "a"
                       /\ \E k \in kws : In(k, Lower(rl_soup.elems[i].href))
            HitB(i) == \E k \in kws : In(k, Lower(rl_js[i]))
        IN /\ \A i, j \in DOMAIN rl_out : i # j => rl_out[i] # rl_out[j]
           /\ \A n \in DOMAIN rl_out :
                \/ \E i \in DOMAIN rl_soup.elems :
                     HitA(i) /\ rl_out[n] = urljoin(rl_base, rl_soup.elems[i].href)
                \/ \E i \in DOMAIN rl_js : HitB(i) /\ rl_out[n] = rl_js[i]
           /\ \A i \in DOMAIN rl_soup.elems :
                HitA(i) => urljoin(rl_base, rl_soup.elems[i].href) \in Range(rl_out)
           /\ \A i \in DOMAIN rl_js : HitB(i) => rl_js[i] \in Range(rl_out)
           /\ rl_url \notin {APPLE, SAMSUNG} => rl_out = <<>>

\* two anchors that resolve to the raw link: one result, not three
C9_Witness ==
    /\ rl_pc = "done"
    /\ rl_url = APPLE /\ rl_base = APPLE
    /\ Len(rl_soup.elems) = 2
    /\ rl_soup.elems[1].href = <<"/", "business">>
    /\ rl_soup.elems[2].href = <<"business">>
    /\ rl_js = <<<<"https://www.apple.com", "/", "business">>>>
    /\ Len(rl_out) = 1

\* C10: a model call that fails gives the empty string, which ends the
\* company's processing with "" as the result: after a failed first call no
\* fallback fetch is made, and a failed call in the loop stops it.  The result
\* is always a string.
C10_FailedCall ==
    /\ \A k \in DOMAIN call_log :
         call_log[k].raised =>
            /\ call_log[k].answer = <<>>
            /\ k = Len(call_log)
            /\ ret = << <<>> >>
            /\ pc \in {"return", "loop", "done"}
            /\ k = 1 => Len(fetch_log) = 1
    /\ pc = "return" =>
         /\ Len(ret) = 1
         /\ ret[1] = Placeholder \/ (call_log # <<>> /\ ret[1] = LastCall.answer)

\* the call fails inside the loop, after a marked answer, with a link left
C10_Witness ==
    /\ pc = "return"
    /\ Len(call_log) = 2 /\ call_log[2].raised
    /\ call_log[1].answer # <<>>
    /\ links # <<>>
    /\ ret = << <<>> >>

====
